---- MODULE Spec2Model ----
(***************************************************************************)
(* Model of src/graph/weighted_graph.py: the WeightedGraphBuilder (vertex  *)
(* count, edge dict, name dict), its four methods, and the WeightedGraph   *)
(* constructor that build() calls.  Python exceptions are modelled as the  *)
(* "raised" field of the record describing the last call.                  *)
(***************************************************************************)
EXTENDS Integers, Sequences, FiniteSets, TLC

VARIABLES vertices, edges, name_to_vertex, heap, last, earlier, added, accepted

vars == <<vertices, edges, name_to_vertex, heap, last, earlier, added, accepted>>

\* ---------------------------------------------------------------- bounds
\* the builder grows (a new vertex, a new key of edges) while its vertex count
\* plus its number of edges is below this
MaxSize == 4

\* the size of the builder with the given fields
Size(vertex_count, edge_dict) == vertex_count + Len(edge_dict)

\* ---------------------------------------------------------------- inputs
\* Python's None, the default of add_vertex's name parameter
None == "<None>"
\* names callers pass to add_vertex (one of them looks like a synthesized name)
SuppliedNames == {"Alice", "vertex 1"}
\* names callers pass to add_edge_name (each is unregistered until added)
LookupNames == {"Alice", "vertex 1"}
\* weights callers pass (floats in the code; only their identity matters)
Weights == {1, 2}
\* indices callers pass to add_edge: -1, every valid index, and vertex_count
IndexArgs == -1..vertices

\* the value of a call that raised
NoValue == "<no value>"
\* the fluent methods return the builder itself
Self == "self"

\* ------------------------------------------------------- Python helpers
\* f"vertex {self.vertices}"
VertexName(i) == "vertex " \o ToString(i)

\* dict[key] = value on an insertion-ordered dict kept as a sequence of
\* entries: an existing key keeps its position, a new key goes last
HasKey(d, s, t) == \E k \in 1..Len(d) : d[k].src = s /\ d[k].dst = t

\* the value of key (s, t) as a sequence: <<>> when the key is absent
DictGet(d, s, t) ==
    IF HasKey(d, s, t)
    THEN <<d[CHOOSE k \in 1..Len(d) : d[k].src = s /\ d[k].dst = t].weight>>
    ELSE <<>>

DictSet(d, s, t, w) ==
    IF HasKey(d, s, t)
    THEN [k \in 1..Len(d) |->
            IF d[k].src = s /\ d[k].dst = t
            THEN [src |-> s, dst |-> t, weight |-> w]
            ELSE d[k]]
    ELSE Append(d, [src |-> s, dst |-> t, weight |-> w])

\* self.name_to_vertex = {name: index}, dropping the other names
NameSet_only(m, name, i) == [n \in {name} |-> i]

\* self.name_to_vertex[name] = index
NameSet(m, name, i) ==
    [n \in DOMAIN m \cup {name} |-> IF n = name THEN i ELSE m[n]]

\* iter(x): an int is not iterable
Iter(x) ==
    IF x \in Int
    THEN [raised |-> "TypeError", items |-> <<>>]
    ELSE [raised |-> "none", items |-> x]

\* x[i]: an int is not subscriptable
GetItem(x, i) ==
    IF x \in Int
    THEN [raised |-> "TypeError", item |-> NoValue]
    ELSE [raised |-> "none", item |-> x[i + 1]]

\* Vertex(): two empty lists
NewVertex == [adjacent_vertices |-> <<>>, weights |-> <<>>]

\* ------------------------------------------------- WeightedGraph.__init__
\* lines 84-86: for (src_v, dst_v), weight in edges.items(), from entry k on.
\* Both subscripts are applied to the constructor's argument `vertices`.
RECURSIVE WireEdges(_, _, _, _)
WireEdges(hp, vertices_arg, edges_arg, k) ==
    IF k > Len(edges_arg)
    THEN [raised |-> "none", heap |-> hp]
    ELSE LET e == edges_arg[k]
             s == GetItem(vertices_arg, e.src)
             d == GetItem(vertices_arg, e.dst)
         IN  IF s.raised # "none" THEN [raised |-> s.raised, heap |-> hp]
             ELSE IF d.raised # "none" THEN [raised |-> d.raised, heap |-> hp]
             ELSE WireEdges(
                    [hp EXCEPT ![s.item] =
                        [adjacent_vertices |-> Append(@.adjacent_vertices, d.item),
                         weights |-> Append(@.weights, e.weight)]],
                    vertices_arg, edges_arg, k + 1)

\* WeightedGraph(vertices, edges, names_to_vertices), run on object store hp.
\* Line 81 iterates over the argument `vertices`; a Vertex is referred to by
\* its address in the object store.
WeightedGraphInit(hp, vertices_arg, edges_arg, names_to_vertices) ==
    LET it == Iter(vertices_arg)
    IN  IF it.raised # "none"
        THEN [raised |-> it.raised, ret |-> NoValue, heap |-> hp]
        ELSE LET n == Len(it.items)
                 self_vertices == [k \in 1..n |-> Len(hp) + k]
                 hp1 == hp \o [k \in 1..n |-> NewVertex]
                 self_name_to_vertex ==
                     [name \in DOMAIN names_to_vertices |->
                         self_vertices[names_to_vertices[name] + 1]]
                 wired == WireEdges(hp1, vertices_arg, edges_arg, 1)
             IN  IF wired.raised # "none"
                 THEN [raised |-> wired.raised, ret |-> NoValue, heap |-> wired.heap]
                 ELSE [raised |-> "none",
                       ret |-> [vertices |-> self_vertices,
                                name_to_vertex |-> self_name_to_vertex],
                       heap |-> wired.heap]

\* ---------------------------------------------------- WeightedGraphBuilder
\* add_vertex naming an unnamed vertex after the incremented count
add_vertex_one_based(name) ==
    LET nm == IF name = None THEN VertexName(vertices + 1) ELSE name
    IN  [raised |-> "none",
         name_to_vertex |-> NameSet(name_to_vertex, nm, vertices),
         vertices |-> vertices + 1]

\* add_vertex registering the name after the increment
add_vertex_index_after(name) ==
    LET nm == IF name = None THEN VertexName(vertices) ELSE name
    IN  [raised |-> "none",
         name_to_vertex |-> NameSet(name_to_vertex, nm, vertices + 1),
         vertices |-> vertices + 1]

\* add_vertex without the increment of the vertex count
add_vertex_no_increment(name) ==
    LET nm == IF name = None THEN VertexName(vertices) ELSE name
    IN  [raised |-> "none",
         name_to_vertex |-> NameSet(name_to_vertex, nm, vertices),
         vertices |-> vertices]

\* add_vertex(name): the builder fields after the call
add_vertex(name) ==
    LET nm == IF name = None THEN VertexName(vertices) ELSE name
    IN  [raised |-> "none",
         name_to_vertex |-> NameSet(name_to_vertex, nm, vertices),
         vertices |-> vertices + 1]

\* add_edge accepting src_v == self.vertices (> in place of >=)
add_edge_inclusive(src_v, dst_v, weight) ==
    IF src_v < 0 \/ src_v > vertices
    THEN [raised |-> "ValueError", edges |-> edges]
    ELSE IF dst_v < 0 \/ dst_v >= vertices
    THEN [raised |-> "ValueError", edges |-> edges]
    ELSE [raised |-> "none", edges |-> DictSet(edges, src_v, dst_v, weight)]

\* add_edge writing the entry before it validates dst_v
add_edge_write_first(src_v, dst_v, weight) ==
    IF src_v < 0 \/ src_v >= vertices
    THEN [raised |-> "ValueError", edges |-> edges]
    ELSE IF dst_v < 0 \/ dst_v >= vertices
    THEN [raised |-> "ValueError", edges |-> DictSet(edges, src_v, dst_v, weight)]
    ELSE [raised |-> "none", edges |-> DictSet(edges, src_v, dst_v, weight)]

\* add_edge(src_v, dst_v, weight): the exception raised, if any, and the edges
\* dict after the call
add_edge(src_v, dst_v, weight) ==
    IF src_v < 0 \/ src_v >= vertices
    THEN [raised |-> "ValueError", edges |-> edges]
    ELSE IF dst_v < 0 \/ dst_v >= vertices
    THEN [raised |-> "ValueError", edges |-> edges]
    ELSE [raised |-> "none", edges |-> DictSet(edges, src_v, dst_v, weight)]

\* add_edge_name raising add_edge's ValueError for an unknown second name
add_edge_name_wrong_error(name1, name2, weight) ==
    IF name1 \notin DOMAIN name_to_vertex
    THEN [raised |-> "KeyError", edges |-> edges]
    ELSE IF name2 \notin DOMAIN name_to_vertex
    THEN [raised |-> "ValueError", edges |-> edges]
    ELSE add_edge(name_to_vertex[name1], name_to_vertex[name2], weight)

\* add_edge_name passing the two resolved indices in the wrong order
add_edge_name_swapped(name1, name2, weight) ==
    IF name1 \notin DOMAIN name_to_vertex
    THEN [raised |-> "KeyError", edges |-> edges]
    ELSE IF name2 \notin DOMAIN name_to_vertex
    THEN [raised |-> "KeyError", edges |-> edges]
    ELSE add_edge(name_to_vertex[name2], name_to_vertex[name1], weight)

\* add_edge_name(name1, name2, weight): both membership tests, then the
\* delegation to add_edge with the indices the names map to
add_edge_name(name1, name2, weight) ==
    IF name1 \notin DOMAIN name_to_vertex
    THEN [raised |-> "KeyError", edges |-> edges]
    ELSE IF name2 \notin DOMAIN name_to_vertex
    THEN [raised |-> "KeyError", edges |-> edges]
    ELSE add_edge(name_to_vertex[name1], name_to_vertex[name2], weight)

\* build(): the constructor applied to the builder's three fields
build == WeightedGraphInit(heap, vertices, edges, name_to_vertex)

\* ------------------------------------------------------------ bookkeeping
\* the last call: its arguments, the exception it raised, the value it
\* returned, and for an accepted add_edge the value its key had before
Call(op, args, raised, ret, old) ==
    [op |-> op, args |-> args, raised |-> raised, ret |-> ret, old |-> old]

\* what an accepted add_edge(s, d, _) replaces: <<>> or <<the old weight>>
Replaced(r, s, d) == IF r.raised = "none" THEN DictGet(edges, s, d) ELSE <<>>

\* the latest weight add_edge accepted for each ordered pair
Accept(r, s, d, w) ==
    IF r.raised = "none"
    THEN [p \in DOMAIN accepted \cup {<<s, d>>} |->
            IF p = <<s, d>> THEN w ELSE accepted[p]]
    ELSE accepted

\* <<the outcome of the call before the last one>> when both are build(),
\* else <<>>
Outcome == <<[raised |-> last.raised, ret |-> last.ret]>>

\* ---------------------------------------------------------------- actions
Init ==
    /\ vertices = 0
    /\ edges = <<>>
    /\ name_to_vertex = <<>>
    /\ heap = <<>>
    /\ last = Call("init", <<>>, "none", NoValue, <<>>)
    /\ earlier = <<>>
    /\ added = 0
    /\ accepted = <<>>

AddVertex ==
    \E name \in SuppliedNames \cup {None} :
        /\ Size(vertices, edges) < MaxSize
        /\ LET r == add_vertex(name)
           IN  /\ vertices' = r.vertices
               /\ name_to_vertex' = r.name_to_vertex
               /\ last' = Call("add_vertex", <<name>>, r.raised, Self, <<>>)
        /\ added' = added + 1
        /\ earlier' = <<>>
        /\ UNCHANGED <<edges, heap, accepted>>

AddEdge ==
    \E src_v \in IndexArgs, dst_v \in IndexArgs, weight \in Weights :
        LET r == add_edge(src_v, dst_v, weight)
        IN  /\ Size(vertices, r.edges) <= MaxSize
            /\ edges' = r.edges
            /\ last' = Call("add_edge", <<src_v, dst_v, weight>>, r.raised,
                            IF r.raised = "none" THEN Self ELSE NoValue,
                            Replaced(r, src_v, dst_v))
            /\ accepted' = Accept(r, src_v, dst_v, weight)
            /\ earlier' = <<>>
            /\ UNCHANGED <<vertices, name_to_vertex, heap, added>>

AddEdgeName ==
    \E name1 \in LookupNames, name2 \in LookupNames, weight \in Weights :
        LET r == add_edge_name(name1, name2, weight)
        IN  /\ Size(vertices, r.edges) <= MaxSize
            /\ edges' = r.edges
            /\ last' = Call("add_edge_name", <<name1, name2, weight>>, r.raised,
                            IF r.raised = "none" THEN Self ELSE NoValue,
                            IF r.raised = "none"
                            THEN Replaced(r, name_to_vertex[name1], name_to_vertex[name2])
                            ELSE <<>>)
            /\ accepted' =
                 IF r.raised = "none"
                 THEN Accept(r, name_to_vertex[name1], name_to_vertex[name2], weight)
                 ELSE accepted
            /\ earlier' = <<>>
            /\ UNCHANGED <<vertices, name_to_vertex, heap, added>>

\* build() emptying the builder's edges dict as it hands it over
Build_consuming ==
    LET r == build
    IN  /\ heap' = r.heap
        /\ last' = Call("build", <<>>, r.raised, r.ret, <<>>)
        /\ earlier' = IF last.op = "build" THEN Outcome ELSE <<>>
        /\ edges' = <<>>
        /\ UNCHANGED <<vertices, name_to_vertex, added, accepted>>

Build ==
    LET r == build
    IN  /\ heap' = r.heap
        /\ last' = Call("build", <<>>, r.raised, r.ret, <<>>)
        /\ earlier' = IF last.op = "build" THEN Outcome ELSE <<>>
        /\ UNCHANGED <<vertices, edges, name_to_vertex, added, accepted>>

Next == AddVertex \/ AddEdge \/ AddEdgeName \/ Build

Spec == Init /\ [][Next]_vars

\* ------------------------------------------------- reading a built Graph
\* the last call is a build() that returned a Graph
Built == last.op = "build" /\ last.raised = "none"

\* the Vertex object at g.vertices[i]
VertexAt(g, i) == heap[g.vertices[i + 1]]

\* the positions of g.vertices[s].adjacent_vertices holding g.vertices[d]
Positions(g, s, d) ==
    {p \in 1..Len(VertexAt(g, s).adjacent_vertices) :
        VertexAt(g, s).adjacent_vertices[p] = g.vertices[d + 1]}

\* the Vertex objects g owns
Owned(g) == {g.vertices[k] : k \in 1..Len(g.vertices)}

\* every adjacency and name reference of g points into g.vertices
Closed(g) ==
    /\ \A k \in 1..Len(g.vertices) :
         \A p \in 1..Len(heap[g.vertices[k]].adjacent_vertices) :
            heap[g.vertices[k]].adjacent_vertices[p] \in Owned(g)
    /\ \A name \in DOMAIN g.name_to_vertex : g.name_to_vertex[name] \in Owned(g)

\* the index in g.vertices of the Vertex object v
IndexOf(g, v) == CHOOSE k \in 1..Len(g.vertices) : g.vertices[k] = v

\* same vertex count, same destinations and weights per vertex, same names
StructurallyEqual(g, h) ==
    /\ Len(g.vertices) = Len(h.vertices)
    /\ \A k \in 1..Len(g.vertices) :
         LET a == heap[g.vertices[k]]
             b == heap[h.vertices[k]]
         IN  /\ a.weights = b.weights
             /\ Len(a.adjacent_vertices) = Len(b.adjacent_vertices)
             /\ \A p \in 1..Len(a.adjacent_vertices) :
                  IndexOf(g, a.adjacent_vertices[p]) = IndexOf(h, b.adjacent_vertices[p])
    /\ DOMAIN g.name_to_vertex = DOMAIN h.name_to_vertex
    /\ \A name \in DOMAIN g.name_to_vertex :
         IndexOf(g, g.name_to_vertex[name]) = IndexOf(h, h.name_to_vertex[name])

\* the name Python formats for "vertex i", written out
ExpectedName ==
    <<"vertex 0", "vertex 1", "vertex 2", "vertex 3", "vertex 4", "vertex 5">>

\* ------------------------------------------------------------------ claims

\* C1: build() never raises, whatever the builder holds (the empty builder
\* included), and the only exceptions of any call are ValueError from
\* add_edge or add_edge_name and KeyError from add_edge_name.
C1_BuildNeverRaises ==
    /\ last.op = "build" => last.raised = "none"
    /\ last.raised \in {"none", "ValueError", "KeyError"}
    /\ last.raised = "ValueError" => last.op \in {"add_edge", "add_edge_name"}
    /\ last.raised = "KeyError" => last.op = "add_edge_name"

\* C2: after n successful add_vertex calls, build() returns a Graph whose
\* vertices list has exactly n entries.
C2_BuiltVertexCount ==
    last.op = "build" => (Built /\ Len(last.ret.vertices) = added)

\* C3: every (source, destination, weight) accepted by add_edge, with the
\* latest weight of its pair, is found in the Graph a later build() returns:
\* vertices[source] holds vertices[destination] at a position where weights
\* holds that weight.
C3_AcceptedEdgeBuilt ==
    (last.op = "build" /\ DOMAIN accepted # {}) =>
        /\ Built
        /\ \A e \in DOMAIN accepted :
             \E p \in Positions(last.ret, e[1], e[2]) :
                VertexAt(last.ret, e[1]).weights[p] = accepted[e]

\* C4: add_edge raises ValueError exactly when one of its indices is negative
\* or >= the vertex count, and is accepted when both are in range.
C4_AddEdgeRange ==
    last.op = "add_edge" =>
        LET s == last.args[1]
            d == last.args[2]
        IN  IF s < 0 \/ s >= vertices \/ d < 0 \/ d >= vertices
            THEN last.raised = "ValueError"
            ELSE last.raised = "none" /\ last.ret = Self

\* C4 witness: on a non-empty builder, source index == vertex count with a
\* valid destination was rejected
C4_Witness ==
    /\ last.op = "add_edge"
    /\ vertices > 0
    /\ last.args[1] = vertices
    /\ last.args[2] = 0
    /\ last.raised = "ValueError"

\* C5: add_edge_name raises KeyError exactly when one of its two names is not
\* a key of name_to_vertex.
C5_AddEdgeNameNotFound ==
    last.op = "add_edge_name" =>
        ((last.args[1] \notin DOMAIN name_to_vertex
            \/ last.args[2] \notin DOMAIN name_to_vertex)
         <=> last.raised = "KeyError")

\* C5 witness: the first name is registered, the second is not, KeyError
C5_Witness ==
    /\ last.op = "add_edge_name"
    /\ last.args[1] \in DOMAIN name_to_vertex
    /\ last.args[2] \notin DOMAIN name_to_vertex
    /\ last.raised = "KeyError"

\* C6: once add_edge has been accepted for a pair that already held a
\* different weight, the builder holds one entry for the pair, with the
\* latest weight, and the Graph the next build() returns has exactly one
\* adjacency entry from source to destination, carrying that weight.
C6_Reweighted ==
    /\ last.op \in {"add_edge", "add_edge_name"}
    /\ last.raised = "none"
    /\ last.old # <<>>
    /\ last.old # <<last.args[3]>>

C6_Pair ==
    IF last.op = "add_edge"
    THEN <<last.args[1], last.args[2]>>
    ELSE <<name_to_vertex[last.args[1]], name_to_vertex[last.args[2]]>>

\* when the last call is build(): it returned a Graph with exactly one
\* adjacency entry from s to d, of weight w
C6_BuiltOnce(s, d, w) ==
    last.op = "build" =>
        /\ Built
        /\ Cardinality(Positions(last.ret, s, d)) = 1
        /\ \A p \in Positions(last.ret, s, d) :
             VertexAt(last.ret, s).weights[p] = w

C6_LatestWeightOnly ==
    [][C6_Reweighted =>
        \A e \in {C6_Pair} : \A w \in {last.args[3]} :
            /\ Cardinality({k \in 1..Len(edges) :
                    edges[k].src = e[1] /\ edges[k].dst = e[2]}) = 1
            /\ DictGet(edges, e[1], e[2]) = <<w>>
            /\ C6_BuiltOnce(e[1], e[2], w)'
      ]_vars

\* C7: add_vertex without a name, called when i vertices have been added,
\* registers "vertex i" mapped to index i.
C7_SynthesizedName ==
    (last.op = "add_vertex" /\ last.args[1] = None) =>
        LET i == added - 1
        IN  /\ ExpectedName[i + 1] \in DOMAIN name_to_vertex
            /\ name_to_vertex[ExpectedName[i + 1]] = i

\* C7 witness: after two named vertices the unnamed one is "vertex 2" -> 2
C7_Witness ==
    /\ last.op = "add_vertex"
    /\ last.args[1] = None
    /\ DOMAIN name_to_vertex = {"Alice", "vertex 1", "vertex 2"}
    /\ name_to_vertex["vertex 1"] = 0
    /\ name_to_vertex["Alice"] = 1
    /\ name_to_vertex["vertex 2"] = 2

\* C8: the Graph build() returns has the builder's names as the keys of its
\* name_to_vertex, each mapped to the Vertex at vertices[index of the name].
C8_BuiltNames ==
    (last.op = "build" /\ DOMAIN name_to_vertex # {}) =>
        /\ Built
        /\ DOMAIN last.ret.name_to_vertex = DOMAIN name_to_vertex
        /\ \A name \in DOMAIN name_to_vertex :
             last.ret.name_to_vertex[name] = last.ret.vertices[name_to_vertex[name] + 1]

\* C9: a build() call leaves the builder's vertex count, edges dict and
\* name_to_vertex dict as they were.
C9_BuildKeepsBuilder ==
    [][last'.op = "build" => UNCHANGED <<vertices, edges, name_to_vertex>>]_vars

\* C9 witness: build() was called on a builder holding vertices, names and an edge
C9_Witness ==
    /\ last.op = "build"
    /\ vertices > 1
    /\ Len(edges) > 0
    /\ DOMAIN name_to_vertex # {}

\* C10: two build() calls in a row return two structurally equal Graphs that
\* share no Vertex, each closed over its own vertices list.
C10_TwoBuilds ==
    (last.op = "build" /\ earlier # <<>>) =>
        /\ earlier[1].raised = "none"
        /\ Built
        /\ StructurallyEqual(earlier[1].ret, last.ret)
        /\ Closed(earlier[1].ret)
        /\ Closed(last.ret)
        /\ Owned(earlier[1].ret) \cap Owned(last.ret) = {}

\* ------------------------------------------------------- claims C11..C20

\* the vertex indices no name maps to: each was mapped by the add_vertex that
\* created it and lost its name to a later add_vertex of the same name
Orphans ==
    {i \in 0..(vertices - 1) :
        \A n \in DOMAIN name_to_vertex : name_to_vertex[n] # i}

\* the name the add_vertex call of this step registers
C11_Name ==
    IF last'.args[1] = None THEN ExpectedName[added + 1] ELSE last'.args[1]

\* this step is an add_vertex whose name is already a key
C11_Collides ==
    /\ last'.op = "add_vertex"
    /\ added' = added + 1
    /\ C11_Name \in DOMAIN name_to_vertex

\* an index that lost its name is still accepted by add_edge and is a vertex
\* of the Graph build() returns
C11_OrphanKept ==
    \A i \in Orphans :
        /\ (last.op = "add_edge" /\ last.args[1] = i /\ last.args[2] = i)
              => last.raised = "none"
        /\ last.op = "build" => (Built /\ i < Len(last.ret.vertices))

\* C11: add_vertex with a name that is already a key raises nothing, adds one
\* to the vertex count and maps the name to the new index; the index the name
\* had stays a vertex slot (accepted by add_edge, present in the built Graph)
\* that the name no longer reaches.
C11_NameCollision ==
    [][/\ C11_Collides =>
            /\ last'.raised = "none"
            /\ vertices' = vertices + 1
            /\ name_to_vertex'[C11_Name] = vertices
            /\ name_to_vertex[C11_Name] \in Orphans'
       /\ C11_OrphanKept'
      ]_vars

\* C12: with both names registered, add_edge_name(name1, name2, weight) does
\* to the builder what add_edge does with the indices the names map to when
\* it is called: same exception (none), same edges dict, nothing else written.
C12_DelegatesToAddEdge ==
    [][(/\ last'.op = "add_edge_name"
        /\ last'.args[1] \in DOMAIN name_to_vertex
        /\ last'.args[2] \in DOMAIN name_to_vertex) =>
            \A s \in {name_to_vertex[last'.args[1]]} :
            \A d \in {name_to_vertex[last'.args[2]]} :
            \A w \in {last'.args[3]} :
                /\ last'.raised = add_edge(s, d, w).raised
                /\ edges' = add_edge(s, d, w).edges
                /\ vertices' = vertices
                /\ name_to_vertex' = name_to_vertex
      ]_vars

\* C12 witness: "Alice" was registered twice (index 0, then 2); the edge
\* added by name starts at index 2, not at index 0
C12_Witness ==
    /\ last.op = "add_edge_name"
    /\ last.raised = "none"
    /\ last.args[1] = "Alice"
    /\ last.args[2] = "vertex 1"
    /\ name_to_vertex["Alice"] = 2
    /\ name_to_vertex["vertex 1"] = 1
    /\ HasKey(edges, 2, 1)
    /\ ~HasKey(edges, 0, 1)

\* C13: build() returns a Graph in which every Vertex has as many weights as
\* adjacent vertices, weights[p] being the weight of the edge to
\* adjacent_vertices[p].
C13_ParallelLists ==
    (last.op = "build" /\ vertices > 0) =>
        /\ Built
        /\ \A k \in 1..Len(last.ret.vertices) :
             LET v == heap[last.ret.vertices[k]]
             IN  /\ Len(v.adjacent_vertices) = Len(v.weights)
                 /\ \A p \in 1..Len(v.adjacent_vertices) :
                      DictGet(edges, k - 1,
                              IndexOf(last.ret, v.adjacent_vertices[p]) - 1)
                        = <<v.weights[p]>>

\* C14: build() returns a Graph in which every name and every adjacency entry
\* refers to a Vertex of that Graph's vertices list.
C14_ReferencesOwned ==
    (last.op = "build" /\ DOMAIN name_to_vertex # {} /\ Len(edges) > 0) =>
        (Built /\ Closed(last.ret))

\* the entries of the edges dict with source s, in the dict's order
OutEdges(s) == SelectSeq(edges, LAMBDA e : e.src = s)

\* C15: in the Graph build() returns, vertices[s] lists exactly the entries of
\* the edges dict with source s, destination and weight, in the order of the
\* dict (the order in which the pairs were first inserted); a vertex without
\* such an entry has two empty lists.
C15_AdjacencyOrder ==
    (last.op = "build" /\ Len(edges) > 1) =>
        /\ Built
        /\ \A s \in 0..(vertices - 1) :
             LET v == VertexAt(last.ret, s)
             IN  /\ Len(v.adjacent_vertices) = Len(OutEdges(s))
                 /\ Len(v.weights) = Len(OutEdges(s))
                 /\ \A p \in 1..Len(OutEdges(s)) :
                      /\ v.adjacent_vertices[p]
                           = last.ret.vertices[OutEdges(s)[p].dst + 1]
                      /\ v.weights[p] = OutEdges(s)[p].weight

\* C16: a builder call that follows a build() is accepted or rejected as on a
\* builder that was never built, and the Graph that build() returned keeps its
\* vertices, adjacency lists, weights and names through the call.
C16_ReusableAfterBuild ==
    [][(last.op = "build"
          /\ last'.op \in {"add_vertex", "add_edge", "add_edge_name"}) =>
            /\ last'.op = "add_vertex" =>
                 (last'.raised = "none" /\ vertices' = vertices + 1)
            /\ last'.op = "add_edge" =>
                 (last'.raised = "ValueError"
                    <=> (\E k \in 1..2 :
                            last'.args[k] < 0 \/ last'.args[k] >= vertices))
            /\ last'.op = "add_edge_name" =>
                 (last'.raised = "KeyError"
                    <=> (\E k \in 1..2 :
                            last'.args[k] \notin DOMAIN name_to_vertex))
            /\ last.raised = "none"
            /\ \A a \in Owned(last.ret) : heap'[a] = heap[a]
      ]_vars

\* C17: every key of edges and every value of name_to_vertex is an index in
\* 0..vertex_count-1, so add_edge_name with two registered names never raises
\* add_edge's ValueError.
C17_IndicesInRange ==
    /\ \A k \in 1..Len(edges) :
         /\ 0 <= edges[k].src /\ edges[k].src < vertices
         /\ 0 <= edges[k].dst /\ edges[k].dst < vertices
    /\ \A n \in DOMAIN name_to_vertex :
         0 <= name_to_vertex[n] /\ name_to_vertex[n] < vertices
    /\ (/\ last.op = "add_edge_name"
        /\ last.args[1] \in DOMAIN name_to_vertex
        /\ last.args[2] \in DOMAIN name_to_vertex) => last.raised = "none"

\* C17 witness: an edge was added by name to the newest vertex
C17_Witness ==
    /\ last.op = "add_edge_name"
    /\ last.raised = "none"
    /\ vertices >= 2
    /\ name_to_vertex[last.args[2]] = vertices - 1
    /\ HasKey(edges, name_to_vertex[last.args[1]], vertices - 1)

\* C18: an add_edge call that raises ValueError, or an add_edge_name call that
\* raises KeyError, leaves vertex count, edges and name_to_vertex as they were.
C18_FailedCallKeepsBuilder ==
    [][(/\ last'.op \in {"add_edge", "add_edge_name"}
        /\ last'.raised \in {"ValueError", "KeyError"}) =>
            UNCHANGED <<vertices, edges, name_to_vertex>>
      ]_vars

\* C18 witness: add_edge with a valid source and destination == vertex count
\* was rejected on a builder that holds an edge
C18_Witness ==
    /\ last.op = "add_edge"
    /\ last.raised = "ValueError"
    /\ 0 <= last.args[1] /\ last.args[1] < vertices
    /\ last.args[2] = vertices
    /\ Len(edges) > 0

\* the keys of an edges dict
Keys(d) == {<<d[k].src, d[k].dst>> : k \in 1..Len(d)}

\* C19: a successful add_vertex adds one to the vertex count, sets one entry
\* of name_to_vertex and leaves edges alone; a successful add_edge or
\* add_edge_name sets one entry of edges and leaves the vertex count,
\* name_to_vertex and every other entry of edges alone.
C19_OwnPartOnly ==
    [][/\ (last'.op = "add_vertex" /\ last'.raised = "none") =>
            /\ vertices' = vertices + 1
            /\ edges' = edges
            /\ \E n \in DOMAIN name_to_vertex' :
                 /\ DOMAIN name_to_vertex' = DOMAIN name_to_vertex \cup {n}
                 /\ name_to_vertex'[n] = vertices
                 /\ \A m \in DOMAIN name_to_vertex \ {n} :
                      name_to_vertex'[m] = name_to_vertex[m]
       /\ (last'.op \in {"add_edge", "add_edge_name"} /\ last'.raised = "none") =>
            /\ vertices' = vertices
            /\ name_to_vertex' = name_to_vertex
            /\ Len(edges') = Cardinality(Keys(edges'))
            /\ \E e \in Keys(edges') :
                 /\ Keys(edges') = Keys(edges) \cup {e}
                 /\ DictGet(edges', e[1], e[2]) = <<last'.args[3]>>
                 /\ \A f \in Keys(edges) \ {e} :
                      DictGet(edges', f[1], f[2]) = DictGet(edges, f[1], f[2])
      ]_vars

\* C19 witness: an accepted add_edge replaced the weight of one of two
\* entries, on a builder with two names
C19_Witness ==
    /\ last.op = "add_edge"
    /\ last.raised = "none"
    /\ last.old # <<>>
    /\ last.old # <<last.args[3]>>
    /\ Len(edges) = 2
    /\ Cardinality(DOMAIN name_to_vertex) = 2

\* no two names map to the same index
Injective(m) == \A a, b \in DOMAIN m : m[a] = m[b] => a = b

\* C20: name_to_vertex is injective, so it has at most as many names as the
\* builder has vertices, and fewer from the first name collision on.
C20_NamesInjective ==
    [][/\ Injective(name_to_vertex')
       /\ Cardinality(DOMAIN name_to_vertex') <= vertices'
       /\ C11_Collides => Cardinality(DOMAIN name_to_vertex') < vertices'
       /\ Cardinality(DOMAIN name_to_vertex) < vertices
            => Cardinality(DOMAIN name_to_vertex') < vertices'
      ]_vars

\* C20 witness: three vertices, two names, after an add_vertex whose name was
\* already registered
C20_Witness ==
    /\ last.op = "add_vertex"
    /\ vertices = 3
    /\ Cardinality(DOMAIN name_to_vertex) = 2
    /\ last.args[1] \in SuppliedNames
    /\ name_to_vertex[last.args[1]] = 2

====
